---- MODULE Spec2Model ----
(***************************************************************************)
(* Model of plugins/prometheus_collector.go (hystrix-go): the Prometheus   *)
(* metric collector.  A PrometheusCollector owns 9 counter vectors, one    *)
(* gauge vector and one histogram vector, all labelled by "command", and   *)
(* registers them with a prometheus registry.  Collector(name) hands out   *)
(* cmdCollector handles whose methods update the vectors.                  *)
(*                                                                         *)
(* float64 values are kept exactly, as [sec, nsec] pairs standing for      *)
(* sec + nsec/1e9 (what Duration.Seconds computes before rounding).        *)
(***************************************************************************)
EXTENDS Integers, Sequences, FiniteSets, TLC

\* ------------------------------------------------------------------ bounds
\* NewPrometheusCollector calls, and collectors registered by other code
MaxConstructions == 2
MaxForeign == 1
\* Collector calls, event calls, and both together
MaxRecorders == 2
MaxEvents == 3
MaxCalls == 4
\* calls the concurrent threads enter
MaxConcurrentCalls == 2

CommandNames == {"a", "b"}
\* every string a caller can pass to Collector, the empty one included
AnyNames == CommandNames \cup {""}
Threads == {"t1", "t2"}
Durations == {250000000, 1500000000}

\* --------------------------------------------------------------- constants
PROMETHEUS_NAMESPACE == "hystrix_go"

Second == 1000000000

CounterFields ==
  {"attempts", "errors", "successes", "failures", "rejects", "shortCircuits",
   "timeouts", "fallbackSuccesses", "fallbackFailures"}

\* Name: of the options each field of the struct is built with
SeriesName ==
  [attempts |-> "attempts", errors |-> "errors", successes |-> "successes",
   failures |-> "failures", rejects |-> "rejects",
   shortCircuits |-> "short_circuits", timeouts |-> "timeouts",
   fallbackSuccesses |-> "fallback_successes",
   fallbackFailures |-> "fallback_failures",
   totalDuration |-> "total_duration_seconds",
   runDuration |-> "run_duration_seconds"]

Fields == DOMAIN SeriesName

\* the fully qualified name of the series of a field: namespace_name
FQName(f) == PROMETHEUS_NAMESPACE \o "_" \o SeriesName[f]

SeriesNames == {FQName(f) : f \in Fields}

FieldOf(n) == CHOOSE f \in Fields : FQName(f) = n

\* the registries a caller can pass: nil (the process-wide default) or its own
Nil == "nil"
DefaultRegisterer == "default"
CustomRegisterer == "custom"
RegArgs == {Nil, CustomRegisterer}
Registries == {DefaultRegisterer, CustomRegisterer}

\* ------------------------------------------------------------------ floats
F(s, n) == [sec |-> s, nsec |-> n]

Zero == F(0, 0)

\* Go's / and % truncate towards zero
GoDiv(a, b) == IF a >= 0 THEN a \div b ELSE -((-a) \div b)

GoMod(a, b) == a - b * GoDiv(a, b)

\* time.Duration.Seconds
Seconds(d) == F(GoDiv(d, Second), GoMod(d, Second))

FloatAdd(x, y) ==
  LET n == x.nsec + y.nsec
  IN  IF n >= Second THEN F(x.sec + y.sec + 1, n - Second)
      ELSE F(x.sec + y.sec, n)

FloatLE(x, y) == x.sec < y.sec \/ (x.sec = y.sec /\ x.nsec <= y.nsec)

\* prometheus.DefBuckets: .005 .01 .025 .05 .1 .25 .5 1 2.5 5 10
DefBuckets ==
  << F(0, 5000000), F(0, 10000000), F(0, 25000000), F(0, 50000000),
     F(0, 100000000), F(0, 250000000), F(0, 500000000), F(1, 0),
     F(2, 500000000), F(5, 0), F(10, 0) >>

CustomBuckets == << F(0, 500000000), F(1, 0) >>

BucketArgs == {Nil, "custom"}

\* -------------------------------------------------------------------- state
VARIABLES
  registry,     \* registry -> set of registered collectors [owner, name]
  hms,          \* the PrometheusCollector values built so far, in order
  created,      \* the cmdCollector handles built so far, in order
  recorders,    \* the handles (indices of created) callers still hold
  foreign,      \* number of collectors registered by other code
  calls,        \* history: <<handle, method, duration>> -> calls made
  gaugeOps,     \* history: <<metrics, name>> -> last gauge operations
  inflight,     \* thread -> the call it is executing and where it stands
  raced         \* history: <<metrics, field, name>> incremented concurrently

vars == <<registry, hms, created, recorders, foreign, calls, gaugeOps,
          inflight, raced>>

\* the state of the concurrent callers
conc == <<inflight, raced>>

\* a thread that is not inside a call
Idle ==
  [op |-> "idle", id |-> 0, metrics |-> 0, commandName |-> "", field |-> "",
   d |-> 0, line |-> 0, at |-> ""]

\* ------------------------------------------------- the client library's ops
\* a WithLabelValues that makes a fresh child on every call
WithLabelValues_Recreates(vec, name, zero) ==
  [n \in DOMAIN vec \cup {name} |-> IF n = name THEN zero ELSE vec[n]]

\* vec.WithLabelValues(name): get the child for the label, or create it
WithLabelValues(vec, name, zero) ==
  IF name \in DOMAIN vec THEN vec ELSE vec @@ (name :> zero)

\* a counter update that ignores the label
CounterAdd_AnyLabel(vec, name, v) ==
  LET w == WithLabelValues(vec, name, 0)
  IN  [n \in DOMAIN w |-> w[n] + v]

\* counter.Add(v) / counter.Inc()
CounterAdd(vec, name, v) ==
  LET w == WithLabelValues(vec, name, 0)
  IN  [w EXCEPT ![name] = @ + v]

\* a gauge update that adds instead of overwriting
GaugeSet_Accumulates(vec, name, v) ==
  LET w == WithLabelValues(vec, name, Zero)
  IN  [w EXCEPT ![name] = FloatAdd(@, v)]

\* gauge.Set(v)
GaugeSet(vec, name, v) ==
  LET w == WithLabelValues(vec, name, Zero)
  IN  [w EXCEPT ![name] = v]

EmptyHistogram(buckets) ==
  [count |-> 0, sum |-> Zero, buckets |-> [i \in 1..Len(buckets) |-> 0]]

\* an Observe whose sum keeps only the last value
HistogramObserve_KeepsLast(vec, name, v, buckets) ==
  LET w == WithLabelValues(vec, name, EmptyHistogram(buckets))
      hit == {i \in 1..Len(buckets) : FloatLE(v, buckets[i])}
      first == IF hit = {} THEN 0
               ELSE CHOOSE i \in hit : \A j \in hit : i <= j
  IN  [w EXCEPT ![name] =
         [count |-> @.count + 1,
          sum |-> v,
          buckets |-> [i \in 1..Len(buckets) |->
                         IF i = first THEN @.buckets[i] + 1 ELSE @.buckets[i]]]]

\* histogram.Observe(v): the first bucket whose upper bound is >= v, sum, count
HistogramObserve(vec, name, v, buckets) ==
  LET w == WithLabelValues(vec, name, EmptyHistogram(buckets))
      hit == {i \in 1..Len(buckets) : FloatLE(v, buckets[i])}
      first == IF hit = {} THEN 0
               ELSE CHOOSE i \in hit : \A j \in hit : i <= j
  IN  [w EXCEPT ![name] =
         [count |-> @.count + 1,
          sum |-> FloatAdd(@.sum, v),
          buckets |-> [i \in 1..Len(buckets) |->
                         IF i = first THEN @.buckets[i] + 1 ELSE @.buckets[i]]]]

\* registry.Register(c): an error when the name is taken
CanRegister(regset, name) == \A e \in regset : e.name # name

\* a reg.MustRegister(...) call that leaves out the histogram
RegisteredFieldsCustom_Short ==
  << "attempts", "errors", "failures", "rejects", "shortCircuits", "timeouts",
     "fallbackSuccesses", "fallbackFailures", "totalDuration" >>

\* the arguments of reg.MustRegister(...), in order
RegisteredFieldsCustom ==
  << "attempts", "errors", "failures", "rejects", "shortCircuits", "timeouts",
     "fallbackSuccesses", "fallbackFailures", "totalDuration", "runDuration" >>

\* the arguments of prometheus.MustRegister(...), in order
RegisteredFieldsDefault ==
  << "attempts", "errors", "failures", "rejects", "shortCircuits", "timeouts",
     "fallbackSuccesses", "fallbackFailures", "totalDuration", "runDuration" >>

\* MustRegister: Register each collector in turn, panic at the first error
RECURSIVE MustRegister(_, _, _, _)
MustRegister(regset, owner, fields, i) ==
  IF i > Len(fields) THEN [set |-> regset, panicked |-> FALSE]
  ELSE IF ~CanRegister(regset, FQName(fields[i]))
       THEN [set |-> regset, panicked |-> TRUE]
       ELSE MustRegister(regset \cup {[owner |-> owner,
                                      name |-> FQName(fields[i])]},
                         owner, fields, i + 1)

\* ------------------------------------------------------------------ history
\* the last two gauge operations made for a key
Remember(log, key, op) ==
  LET old == IF key \in DOMAIN log THEN log[key] ELSE << >>
      new == IF Len(old) < 2 THEN Append(old, op) ELSE << old[2], op >>
  IN  IF key \in DOMAIN log THEN [log EXCEPT ![key] = new]
      ELSE log @@ (key :> new)

Count(log, key) ==
  IF key \in DOMAIN log THEN [log EXCEPT ![key] = @ + 1] ELSE log @@ (key :> 1)

RECURSIVE Total(_, _)
Total(log, keys) ==
  IF keys = {} THEN 0
  ELSE LET k == CHOOSE x \in keys : TRUE
       IN  log[k] + Total(log, keys \ {k})

\* event calls made so far, through every handle
Events == Total(calls, DOMAIN calls)

\* the bounds leave room for one more event call
EventAllowed ==
  LET n == Events
  IN  n < MaxEvents /\ n + Len(created) < MaxCalls

\* event calls of one kind made so far for a command name of a collector set
Calls(m, field, name) ==
  Total(calls, {k \in DOMAIN calls :
                  /\ k[2] = field
                  /\ created[k[1]].metrics = m
                  /\ created[k[1]].commandName = name})

\* hm.Collector(name) has returned at least once
Created(m, name) ==
  \E id \in 1..Len(created) :
    created[id].metrics = m /\ created[id].commandName = name

\* what an export of registry r shows for series n and label c: the value of
\* the child, of the collector registered under that name (none: nothing)
Exported(r, n, c) ==
  {hms[e.owner][FieldOf(n)][c] :
     e \in {x \in registry[r] :
              /\ x.owner # 0
              /\ x.name = n
              /\ c \in DOMAIN hms[x.owner][FieldOf(n)]}}

\* the child of a vector for a label, if it exists
Child(vec, name) == IF name \in DOMAIN vec THEN {vec[name]} ELSE {}

\* ------------------------------------------------------------------ actions
\* NewPrometheusCollector(reg, duration_buckets), from registries regs and the
\* collector sets built before: the registries and the collector sets after.
\* A panic of MustRegister leaves a set that is never returned.
Construct(regs, sets, reg, duration_buckets) ==
  LET id == Len(sets) + 1
      buckets == IF duration_buckets = Nil THEN DefBuckets ELSE CustomBuckets
      target == IF reg # Nil THEN reg ELSE DefaultRegisterer
      res == IF reg # Nil
             THEN MustRegister(regs[target], id, RegisteredFieldsCustom, 1)
             ELSE MustRegister(regs[target], id, RegisteredFieldsDefault, 1)
      hm == [f \in Fields |-> << >>] @@
            [buckets |-> buckets, reg |-> target, returned |-> ~res.panicked]
  IN  [registry |-> [regs EXCEPT ![target] = res.set],
       hms |-> Append(sets, hm)]

NoRegistrations == [r \in Registries |-> {}]

\* the state before any construction
InitRegistry ==
  /\ registry = NoRegistrations
  /\ hms = << >>
  /\ created = << >>
  /\ recorders = {}
  /\ foreign = 0
  /\ calls = [k \in {} |-> 0]
  /\ gaugeOps = [k \in {} |-> << >>]
  /\ inflight = [t \in Threads |-> Idle]
  /\ raced = {}

\* the state after one construction against the default registry
Init ==
  /\ \E b \in BucketArgs :
       LET c == Construct(NoRegistrations, << >>, Nil, b)
       IN  registry = c.registry /\ hms = c.hms
  /\ created = << >>
  /\ recorders = {}
  /\ foreign = 0
  /\ calls = [k \in {} |-> 0]
  /\ gaugeOps = [k \in {} |-> << >>]
  /\ inflight = [t \in Threads |-> Idle]
  /\ raced = {}

\* other code of the process registers a collector of its own
RegisterForeign(r, n) ==
  /\ foreign < MaxForeign
  /\ CanRegister(registry[r], n)
  /\ registry' = [registry EXCEPT ![r] = @ \cup {[owner |-> 0, name |-> n]}]
  /\ foreign' = foreign + 1
  /\ UNCHANGED <<hms, created, recorders, calls, gaugeOps, conc>>

NewPrometheusCollector(reg, duration_buckets) ==
  /\ Len(hms) < MaxConstructions
  /\ LET c == Construct(registry, hms, reg, duration_buckets)
     IN  registry' = c.registry /\ hms' = c.hms
  /\ UNCHANGED <<created, recorders, foreign, calls, gaugeOps, conc>>

\* the hm.<field> vectors after initCounters for commandName
InitCounters(hm, commandName) ==
  LET h1 == [hm EXCEPT !.attempts = CounterAdd(@, commandName, 0)]
      h2 == [h1 EXCEPT !.errors = CounterAdd(@, commandName, 0)]
      h3 == [h2 EXCEPT !.successes = CounterAdd(@, commandName, 0)]
      h4 == [h3 EXCEPT !.failures = CounterAdd(@, commandName, 0)]
      h5 == [h4 EXCEPT !.rejects = CounterAdd(@, commandName, 0)]
      h6 == [h5 EXCEPT !.shortCircuits = CounterAdd(@, commandName, 0)]
      h7 == [h6 EXCEPT !.timeouts = CounterAdd(@, commandName, 0)]
      h8 == [h7 EXCEPT !.fallbackSuccesses = CounterAdd(@, commandName, 0)]
      h9 == [h8 EXCEPT !.fallbackFailures = CounterAdd(@, commandName, 0)]
  IN  [h9 EXCEPT !.totalDuration = GaugeSet(@, commandName, Zero)]

\* hm.Collector(name)
Collector(m, name) ==
  /\ Len(created) < MaxRecorders
  /\ Events + Len(created) < MaxCalls
  /\ hms[m].returned
  /\ LET hc == [commandName |-> name, metrics |-> m]
     IN  /\ created' = Append(created, hc)
         /\ recorders' = recorders \cup {Len(created) + 1}
         /\ hms' = [hms EXCEPT ![m] = InitCounters(@, hc.commandName)]
  /\ gaugeOps' = Remember(gaugeOps, <<m, name>>,
                          [call |-> "Collector", d |-> 0])
  /\ UNCHANGED <<registry, foreign, calls, conc>>

\* the caller drops a handle
Discard(id) ==
  /\ recorders' = recorders \ {id}
  /\ UNCHANGED <<registry, hms, created, foreign, calls, gaugeOps, conc>>

\* hc.metrics.<field>.WithLabelValues(hc.commandName).Inc()
Inc(id, field) ==
  LET hc == created[id]
  IN  /\ EventAllowed
      /\ calls' = Count(calls, <<id, field, 0>>)
      /\ hms' = [hms EXCEPT ![hc.metrics][field] =
                   CounterAdd(@, hc.commandName, 1)]
      /\ UNCHANGED <<registry, created, recorders, foreign, gaugeOps,
                     conc>>

IncrementAttempts(id) == Inc(id, "attempts")

\* an IncrementErrors that counts on the attempts vector
IncrementErrors_WrongVector(id) == Inc(id, "attempts")

IncrementErrors(id) == Inc(id, "errors")

IncrementSuccesses(id) == Inc(id, "successes")

IncrementFailures(id) == Inc(id, "failures")

IncrementRejects(id) == Inc(id, "rejects")

IncrementShortCircuits(id) == Inc(id, "shortCircuits")

IncrementTimeouts(id) == Inc(id, "timeouts")

IncrementFallbackSuccesses(id) == Inc(id, "fallbackSuccesses")

IncrementFallbackFailures(id) == Inc(id, "fallbackFailures")

UpdateTotalDuration(id, timeSinceStart) ==
  LET hc == created[id]
  IN  /\ EventAllowed
      /\ calls' = Count(calls, <<id, "totalDuration", 0>>)
      /\ hms' = [hms EXCEPT ![hc.metrics].totalDuration =
                   GaugeSet(@, hc.commandName, Seconds(timeSinceStart))]
      /\ gaugeOps' = Remember(gaugeOps, <<hc.metrics, hc.commandName>>,
                              [call |-> "UpdateTotalDuration",
                               d |-> timeSinceStart])
      /\ UNCHANGED <<registry, created, recorders, foreign, conc>>

UpdateRunDuration(id, runDuration) ==
  LET hc == created[id]
  IN  /\ EventAllowed
      /\ calls' = Count(calls, <<id, "runDuration", runDuration>>)
      /\ hms' = [hms EXCEPT ![hc.metrics].runDuration =
                   HistogramObserve(@, hc.commandName, Seconds(runDuration),
                                    hms[hc.metrics].buckets)]
      /\ UNCHANGED <<registry, created, recorders, foreign, gaugeOps,
                     conc>>

\* a Reset that drops the accumulators of the bound command name
Reset_Purges(id) ==
  /\ id \in recorders
  /\ EventAllowed
  /\ calls' = Count(calls, <<id, "Reset", 0>>)
  /\ hms' = [hms EXCEPT ![created[id].metrics] =
               [f \in DOMAIN @ |->
                  IF f \in Fields
                  THEN [c \in DOMAIN @[f] \ {created[id].commandName} |->
                          @[f][c]]
                  ELSE @[f]]]
  /\ UNCHANGED <<registry, created, recorders, foreign, gaugeOps, conc>>

\* the body of Reset is empty: only the history records the call
Reset(id) ==
  /\ id \in recorders
  /\ EventAllowed
  /\ calls' = Count(calls, <<id, "Reset", 0>>)
  /\ UNCHANGED <<registry, hms, created, recorders, foreign, gaugeOps, conc>>

\* --------------------------------------------------- concurrent callers
\* Every statement of the event methods and of initCounters is
\* vec.WithLabelValues(name).Op(): two steps of the client library, each atomic
\* (the vector's lock, the child's atomic update).  Calls of different threads
\* interleave between these steps.

\* the state after NewPrometheusCollector(nil, nil) and one Collector call
InitConcurrent ==
  \E name \in CommandNames :
    LET c == Construct(NoRegistrations, << >>, Nil, Nil)
    IN  /\ registry = c.registry
        /\ hms = << InitCounters(c.hms[1], name) >>
        /\ created = << [commandName |-> name, metrics |-> 1] >>
        /\ recorders = {1}
        /\ foreign = 0
        /\ calls = [k \in {} |-> 0]
        /\ gaugeOps = (<<1, name>> :> << [call |-> "Collector", d |-> 0] >>)
        /\ inflight = [t \in Threads |-> Idle]
        /\ raced = {}

\* the vectors initCounters touches, in order
InitLines ==
  << "attempts", "errors", "successes", "failures", "rejects",
     "shortCircuits", "timeouts", "fallbackSuccesses", "fallbackFailures",
     "totalDuration" >>

\* the child WithLabelValues makes for a new label of a vector
NewChild(hm, field) ==
  IF field \in CounterFields THEN 0
  ELSE IF field = "totalDuration" THEN Zero
  ELSE EmptyHistogram(hm.buckets)

EventsInFlight ==
  Cardinality({t \in Threads : inflight[t].op \notin {"idle", "Collector"}})

CollectorsInFlight ==
  Cardinality({t \in Threads : inflight[t].op = "Collector"})

\* calls the threads have entered so far (the first handle is Init's)
CallsEntered ==
  Events + EventsInFlight + (Len(created) - 1) + CollectorsInFlight

\* the calls in flight that write the gauge of a command name
GaugeWriters(t, m, name) ==
  {u \in Threads \ {t} :
     /\ inflight[u].op \in {"UpdateTotalDuration", "Collector"}
     /\ inflight[u].metrics = m
     /\ inflight[u].commandName = name}

\* history: the call a thread enters writes the gauge while other calls that
\* write it are in flight, an UpdateTotalDuration among them all
GaugeRaced(t, m, name, op) ==
  LET key == <<m, "totalDuration", name>>
      others == GaugeWriters(t, m, name)
  IN  IF op \notin {"UpdateTotalDuration", "Collector"} THEN raced
      ELSE IF others = {} THEN raced \ {key}
      ELSE IF \/ op = "UpdateTotalDuration"
              \/ \E u \in others : inflight[u].op = "UpdateTotalDuration"
           THEN raced \cup {key}
      ELSE raced

\* a thread enters hm.Collector(name)
CallCollector(t, m, name) ==
  /\ inflight[t] = Idle
  /\ hms[m].returned
  /\ Len(created) + CollectorsInFlight < MaxRecorders
  /\ CallsEntered < MaxConcurrentCalls
  /\ inflight' = [inflight EXCEPT ![t] =
                    [op |-> "Collector", id |-> 0, metrics |-> m,
                     commandName |-> name, field |-> InitLines[1], d |-> 0,
                     line |-> 1, at |-> "WithLabelValues"]]
  /\ raced' = GaugeRaced(t, m, name, "Collector")
  /\ UNCHANGED <<registry, hms, created, recorders, foreign, calls, gaugeOps>>

\* a thread enters an event method of a handle
Enter(t, id, op, field, d) ==
  LET hc == created[id]
      same == {u \in Threads \ {t} :
                 /\ inflight[u].op = "Increment"
                 /\ inflight[u].metrics = hc.metrics
                 /\ inflight[u].commandName = hc.commandName
                 /\ inflight[u].field = field}
  IN  /\ inflight[t] = Idle
      /\ Events + EventsInFlight < MaxEvents
      /\ CallsEntered < MaxConcurrentCalls
      /\ inflight' = [inflight EXCEPT ![t] =
                        [op |-> op, id |-> id, metrics |-> hc.metrics,
                         commandName |-> hc.commandName, field |-> field,
                         d |-> d, line |-> 1, at |-> "WithLabelValues"]]
      /\ raced' = IF op = "Increment" /\ same # {}
                  THEN raced \cup {<<hc.metrics, field, hc.commandName>>}
                  ELSE GaugeRaced(t, hc.metrics, hc.commandName, op)
      /\ UNCHANGED <<registry, hms, created, recorders, foreign, calls,
                     gaugeOps>>

\* one of the nine Increment methods
CallIncrement(t, id, field) == Enter(t, id, "Increment", field, 0)

CallUpdateTotalDuration(t, id, timeSinceStart) ==
  Enter(t, id, "UpdateTotalDuration", "totalDuration", timeSinceStart)

CallUpdateRunDuration(t, id, runDuration) ==
  Enter(t, id, "UpdateRunDuration", "runDuration", runDuration)

\* Reset has no statement: it returns at once
CallReset(t, id) ==
  /\ inflight[t] = Idle
  /\ id \in recorders
  /\ Events + EventsInFlight < MaxEvents
  /\ CallsEntered < MaxConcurrentCalls
  /\ calls' = Count(calls, <<id, "Reset", 0>>)
  /\ UNCHANGED <<registry, hms, created, recorders, foreign, gaugeOps, conc>>

\* the WithLabelValues of the statement a thread stands at
Lookup(t) ==
  LET c == inflight[t]
  IN  /\ c.at = "WithLabelValues"
      /\ hms' = [hms EXCEPT ![c.metrics][c.field] =
                   WithLabelValues(@, c.commandName,
                                   NewChild(hms[c.metrics], c.field))]
      /\ inflight' = [inflight EXCEPT ![t].at = "Op"]
      /\ UNCHANGED <<registry, created, recorders, foreign, calls, gaugeOps,
                     raced>>

\* .Inc() of an Increment method, and the return
ApplyIncrement(t) ==
  LET c == inflight[t]
  IN  /\ c.op = "Increment" /\ c.at = "Op"
      /\ hms' = [hms EXCEPT ![c.metrics][c.field] =
                   CounterAdd(@, c.commandName, 1)]
      /\ calls' = Count(calls, <<c.id, c.field, 0>>)
      /\ inflight' = [inflight EXCEPT ![t] = Idle]
      /\ UNCHANGED <<registry, created, recorders, foreign, gaugeOps, raced>>

\* .Set(timeSinceStart.Seconds()), and the return
ApplyUpdateTotalDuration(t) ==
  LET c == inflight[t]
  IN  /\ c.op = "UpdateTotalDuration" /\ c.at = "Op"
      /\ hms' = [hms EXCEPT ![c.metrics].totalDuration =
                   GaugeSet(@, c.commandName, Seconds(c.d))]
      /\ gaugeOps' = Remember(gaugeOps, <<c.metrics, c.commandName>>,
                              [call |-> "UpdateTotalDuration", d |-> c.d])
      /\ calls' = Count(calls, <<c.id, "totalDuration", 0>>)
      /\ inflight' = [inflight EXCEPT ![t] = Idle]
      /\ UNCHANGED <<registry, created, recorders, foreign, raced>>

\* .Observe(runDuration.Seconds()), and the return
ApplyUpdateRunDuration(t) ==
  LET c == inflight[t]
  IN  /\ c.op = "UpdateRunDuration" /\ c.at = "Op"
      /\ hms' = [hms EXCEPT ![c.metrics].runDuration =
                   HistogramObserve(@, c.commandName, Seconds(c.d),
                                    hms[c.metrics].buckets)]
      /\ calls' = Count(calls, <<c.id, "runDuration", c.d>>)
      /\ inflight' = [inflight EXCEPT ![t] = Idle]
      /\ UNCHANGED <<registry, created, recorders, foreign, gaugeOps, raced>>

\* .Add(0.0) or .Set(0.0) of the line of initCounters a thread stands at;
\* after the last line Collector returns the handle
ApplyInitCounters(t) ==
  LET c == inflight[t]
      hc == [commandName |-> c.commandName, metrics |-> c.metrics]
      last == c.line = Len(InitLines)
  IN  /\ c.op = "Collector" /\ c.at = "Op"
      /\ hms' = [hms EXCEPT ![c.metrics][c.field] =
                   IF c.field = "totalDuration"
                   THEN GaugeSet(@, c.commandName, Zero)
                   ELSE CounterAdd(@, c.commandName, 0)]
      /\ gaugeOps' = IF c.field = "totalDuration"
                     THEN Remember(gaugeOps, <<c.metrics, c.commandName>>,
                                   [call |-> "Collector", d |-> 0])
                     ELSE gaugeOps
      /\ inflight' = [inflight EXCEPT ![t] =
                        IF last THEN Idle
                        ELSE [c EXCEPT !.line = @ + 1,
                                       !.field = InitLines[c.line + 1],
                                       !.at = "WithLabelValues"]]
      /\ created' = IF last THEN Append(created, hc) ELSE created
      /\ recorders' = IF last THEN recorders \cup {Len(created) + 1}
                      ELSE recorders
      /\ UNCHANGED <<registry, foreign, calls, raced>>

NextRegistry ==
  \/ \E r \in Registries, n \in SeriesNames : RegisterForeign(r, n)
  \/ \E reg \in RegArgs, b \in BucketArgs : NewPrometheusCollector(reg, b)

Next ==
  \/ \E m \in 1..Len(hms), name \in CommandNames : Collector(m, name)
  \/ \E id \in recorders : Discard(id)
  \/ \E id \in recorders : IncrementAttempts(id)
  \/ \E id \in recorders : IncrementErrors(id)
  \/ \E id \in recorders : IncrementSuccesses(id)
  \/ \E id \in recorders : IncrementFailures(id)
  \/ \E id \in recorders : IncrementRejects(id)
  \/ \E id \in recorders : IncrementShortCircuits(id)
  \/ \E id \in recorders : IncrementTimeouts(id)
  \/ \E id \in recorders : IncrementFallbackSuccesses(id)
  \/ \E id \in recorders : IncrementFallbackFailures(id)
  \/ \E id \in recorders, d \in Durations : UpdateTotalDuration(id, d)
  \/ \E id \in recorders, d \in Durations : UpdateRunDuration(id, d)
  \/ \E id \in recorders : Reset(id)

\* the same calls, with the empty string among the names passed to Collector
NextAnyName ==
  \/ \E m \in 1..Len(hms), name \in AnyNames : Collector(m, name)
  \/ \E id \in recorders : Discard(id)
  \/ \E id \in recorders : IncrementAttempts(id)
  \/ \E id \in recorders : IncrementErrors(id)
  \/ \E id \in recorders : IncrementSuccesses(id)
  \/ \E id \in recorders : IncrementFailures(id)
  \/ \E id \in recorders : IncrementRejects(id)
  \/ \E id \in recorders : IncrementShortCircuits(id)
  \/ \E id \in recorders : IncrementTimeouts(id)
  \/ \E id \in recorders : IncrementFallbackSuccesses(id)
  \/ \E id \in recorders : IncrementFallbackFailures(id)
  \/ \E id \in recorders, d \in Durations : UpdateTotalDuration(id, d)
  \/ \E id \in recorders, d \in Durations : UpdateRunDuration(id, d)
  \/ \E id \in recorders : Reset(id)

NextConcurrent ==
  \/ \E t \in Threads, m \in 1..Len(hms), name \in CommandNames :
       CallCollector(t, m, name)
  \/ \E t \in Threads, id \in recorders, field \in CounterFields :
       CallIncrement(t, id, field)
  \/ \E t \in Threads, id \in recorders, d \in Durations :
       CallUpdateTotalDuration(t, id, d)
  \/ \E t \in Threads, id \in recorders, d \in Durations :
       CallUpdateRunDuration(t, id, d)
  \/ \E t \in Threads, id \in recorders : CallReset(t, id)
  \/ \E t \in Threads : Lookup(t)
  \/ \E t \in Threads : ApplyIncrement(t)
  \/ \E t \in Threads : ApplyUpdateTotalDuration(t)
  \/ \E t \in Threads : ApplyUpdateRunDuration(t)
  \/ \E t \in Threads : ApplyInitCounters(t)

\* construction and registration
SpecRegistry == InitRegistry /\ [][NextRegistry]_vars

\* the recorders of one constructed collector set
Spec == Init /\ [][Next]_vars

\* the same calls made by concurrent threads, statement by statement
SpecConcurrent == InitConcurrent /\ [][NextConcurrent]_vars

\* the recorders of one collector set, for any string as command name
SpecAnyName == Init /\ [][NextAnyName]_vars

\* ------------------------------------------------------------------- claims
Sets == 1..Len(hms)

NoEvents(m, c) == \A f \in Fields : Calls(m, f, c) = 0

\* C1: once NewPrometheusCollector has returned, each of the 11 series of the
\* returned set is registered in the target registry.
C1_AllSeriesRegistered ==
  \A m \in Sets :
    hms[m].returned =>
      \A f \in Fields :
        [owner |-> m, name |-> FQName(f)] \in registry[hms[m].reg]

\* C2: once Collector(c) has returned and no event was recorded for c, the
\* export of the registry shows each of the 9 counters and the gauge with an
\* entry for c of value 0.
C2_ZeroVisibility ==
  \A m \in Sets, c \in CommandNames :
    (Created(m, c) /\ NoEvents(m, c)) =>
      /\ \A f \in CounterFields :
           Exported(hms[m].reg, FQName(f), c) = {0}
      /\ Exported(hms[m].reg, FQName("totalDuration"), c) = {Zero}

\* C3: a Collector(c) call made after events were recorded for c leaves every
\* counter and the total duration gauge of c unchanged.
C3_RecreationKeepsValues ==
  [][\A m \in Sets, c \in CommandNames :
       (Collector(m, c) /\ Created(m, c) /\ ~NoEvents(m, c)) =>
         \A f \in CounterFields \cup {"totalDuration"} :
           hms'[m][f][c] = hms[m][f][c]]_vars

\* C4: the exported value of counter K for command c is the number of calls
\* made to K's increment operation on the recorders of c.
C4_ExportedCounterExact ==
  \A m \in Sets, c \in CommandNames, K \in CounterFields :
    Created(m, c) =>
      Exported(hms[m].reg, FQName(K), c) = {Calls(m, K, c)}

\* C5: a second construction against the registry of an earlier returned set
\* fails, and the registry still holds all 11 series of the first set.
C5_ConstructionConflict ==
  \A i \in Sets, j \in Sets :
    (i < j /\ hms[i].returned /\ hms[i].reg = hms[j].reg) =>
      /\ ~hms[j].returned
      /\ \A f \in Fields :
           [owner |-> i, name |-> FQName(f)] \in registry[hms[i].reg]

\* C6: a failed construction leaves none of its series registered.
C6_AllOrNothing ==
  \A m \in Sets :
    ~hms[m].returned =>
      \A r \in Registries : \A e \in registry[r] : e.owner # m

\* C7: after UpdateTotalDuration(d1) then UpdateTotalDuration(d2) with no gauge
\* operation for the command in between, the gauge is d2 in seconds.
C7_GaugeOverwrite ==
  \A k \in DOMAIN gaugeOps :
    (/\ Len(gaugeOps[k]) = 2
     /\ gaugeOps[k][1].call = "UpdateTotalDuration"
     /\ gaugeOps[k][2].call = "UpdateTotalDuration") =>
      hms[k[1]].totalDuration[k[2]] = Seconds(gaugeOps[k][2].d)

C7_Witness ==
  \E k \in DOMAIN gaugeOps :
    /\ Len(gaugeOps[k]) = 2
    /\ gaugeOps[k][1].call = "UpdateTotalDuration"
    /\ gaugeOps[k][2].call = "UpdateTotalDuration"
    /\ gaugeOps[k][1].d # gaugeOps[k][2].d
    /\ hms[k[1]].totalDuration[k[2]] = Seconds(gaugeOps[k][2].d)
    /\ hms[k[1]].totalDuration[k[2]] # Seconds(gaugeOps[k][1].d)

\* an operation performed for command name a
OpFor(a) ==
  \/ \E m \in Sets : Collector(m, a)
  \/ \E id \in recorders :
       /\ created[id].commandName = a
       /\ \/ IncrementAttempts(id)
          \/ IncrementErrors(id)
          \/ IncrementSuccesses(id)
          \/ IncrementFailures(id)
          \/ IncrementRejects(id)
          \/ IncrementShortCircuits(id)
          \/ IncrementTimeouts(id)
          \/ IncrementFallbackSuccesses(id)
          \/ IncrementFallbackFailures(id)
          \/ \E d \in Durations : UpdateTotalDuration(id, d)
          \/ \E d \in Durations : UpdateRunDuration(id, d)
          \/ Reset(id)

\* C8: no operation performed for command a changes the value of a series for
\* another command b.
C8_LabelIsolation ==
  [][\A a \in CommandNames : \A b \in CommandNames \ {a} :
       OpFor(a) =>
         \A m \in Sets, f \in Fields :
           Child(hms'[m][f], b) = Child(hms[m][f], b)]_vars

C8_Witness ==
  \E m \in Sets, a \in CommandNames, b \in CommandNames, K \in CounterFields :
    /\ a # b
    /\ Created(m, a) /\ Created(m, b)
    /\ Calls(m, K, a) > 0 /\ hms[m][K][a] > 0
    /\ Calls(m, "totalDuration", a) > 0 /\ hms[m].totalDuration[a] # Zero
    /\ hms[m][K][b] = 0 /\ hms[m].totalDuration[b] = Zero

\* an Increment call for the key is between its entry and its return
IncrementInFlight(m, K, c) ==
  \E t \in Threads :
    /\ inflight[t].op = "Increment"
    /\ inflight[t].metrics = m
    /\ inflight[t].field = K
    /\ inflight[t].commandName = c

\* C9: once the concurrent Increment calls of one kind for one command name
\* have all returned, the counter has grown by exactly the number of calls.
C9_NoLostUpdates ==
  \A m \in Sets, K \in CounterFields, c \in CommandNames :
    (~IncrementInFlight(m, K, c) /\ c \in DOMAIN hms[m][K]) =>
      hms[m][K][c] = Calls(m, K, c)

C9_Witness ==
  \E k \in raced :
    /\ k[2] \in CounterFields
    /\ ~IncrementInFlight(k[1], k[2], k[3])
    /\ Calls(k[1], k[2], k[3]) = 2
    /\ hms[k[1]][k[2]][k[3]] = 2

\* C10: the value of each counter for c is the number of increments made
\* through all recorders ever created for c, discarded ones included.
C10_RecorderChurn ==
  \A m \in Sets, c \in CommandNames, K \in CounterFields :
    Child(hms[m][K], c) =
      IF Created(m, c) THEN {Calls(m, K, c)} ELSE {}

C10_Witness ==
  \E id1 \in 1..Len(created), id2 \in 1..Len(created), K \in CounterFields :
    /\ id1 < id2 /\ created[id1] = created[id2]
    /\ id1 \notin recorders
    /\ <<id1, K, 0>> \in DOMAIN calls /\ <<id2, K, 0>> \in DOMAIN calls
    /\ hms[created[id1].metrics][K][created[id1].commandName] = 2

\* a step in which Reset was called through handle id
ResetCalled(id) == calls' = Count(calls, <<id, "Reset", 0>>)

Observed(m, name, d) ==
  Total(calls, {k \in DOMAIN calls :
                  /\ k[2] = "runDuration"
                  /\ k[3] = d
                  /\ created[k[1]].metrics = m
                  /\ created[k[1]].commandName = name})

\* whole seconds and nanoseconds of the durations observed, each summed apart
RECURSIVE ObservedParts(_, _, _)
ObservedParts(ds, m, name) ==
  IF ds = {} THEN [sec |-> 0, nsec |-> 0]
  ELSE LET d == CHOOSE x \in ds : TRUE
           rest == ObservedParts(ds \ {d}, m, name)
           n == Observed(m, name, d)
       IN  [sec |-> rest.sec + n * GoDiv(d, Second),
            nsec |-> rest.nsec + n * GoMod(d, Second)]

\* v1 + ... + vm of the runDuration.Seconds() values observed for a name
ObservedSum(m, name) ==
  LET p == ObservedParts(Durations, m, name)
  IN  F(p.sec + p.nsec \div Second, p.nsec % Second)

C13_EmptyNameRejected ==
  /\ \A id \in 1..Len(created) : created[id].commandName # ""
  /\ \A m \in Sets, f \in Fields : "" \notin DOMAIN hms[m][f]

\* C14: once Collector(c) has returned, each of the 11 vectors has an
\* accumulator for c, the run_duration_seconds histogram included, which is
\* empty (count 0, sum 0) as long as UpdateRunDuration was not called for c.
C14_AllAccumulatorsCreated ==
  \A m \in Sets, c \in CommandNames :
    Created(m, c) =>
      /\ \A f \in Fields : c \in DOMAIN hms[m][f]
      /\ Calls(m, "runDuration", c) = 0 =>
           Child(hms[m].runDuration, c) = {EmptyHistogram(hms[m].buckets)}

\* the step changes no accumulator but that of field f for the handle's name
OnlyChanged(id, f) ==
  \A m \in Sets, g \in Fields, c \in CommandNames :
    <<m, g, c>> # <<created[id].metrics, f, created[id].commandName>> =>
      Child(hms'[m][g], c) = Child(hms[m][g], c)

\* the step adds exactly 1 to counter K of the handle's name, nothing else
AddsOne(id, K) ==
  LET m == created[id].metrics
      c == created[id].commandName
  IN  /\ Child(hms'[m][K], c) = {x + 1 : x \in Child(hms[m][K], c)}
      /\ Child(hms[m][K], c) # {}
      /\ OnlyChanged(id, K)

\* C15: each of the nine increment operations adds exactly 1 to its own
\* counter for the bound command name and leaves the other eight counters,
\* the gauge and the histogram unchanged; UpdateTotalDuration changes only
\* the gauge and UpdateRunDuration only the histogram.
C15_EventMapping ==
  [][\A id \in recorders :
       /\ IncrementAttempts(id) => AddsOne(id, "attempts")
       /\ IncrementErrors(id) => AddsOne(id, "errors")
       /\ IncrementSuccesses(id) => AddsOne(id, "successes")
       /\ IncrementFailures(id) => AddsOne(id, "failures")
       /\ IncrementRejects(id) => AddsOne(id, "rejects")
       /\ IncrementShortCircuits(id) => AddsOne(id, "shortCircuits")
       /\ IncrementTimeouts(id) => AddsOne(id, "timeouts")
       /\ IncrementFallbackSuccesses(id) => AddsOne(id, "fallbackSuccesses")
       /\ IncrementFallbackFailures(id) => AddsOne(id, "fallbackFailures")
       /\ (\E d \in Durations : UpdateTotalDuration(id, d)) =>
            OnlyChanged(id, "totalDuration")
       /\ (\E d \in Durations : UpdateRunDuration(id, d)) =>
            OnlyChanged(id, "runDuration")]_vars

C15_Witness ==
  \E id \in recorders, K \in CounterFields :
    LET m == created[id].metrics
        c == created[id].commandName
    IN  /\ Calls(m, K, c) = 1 /\ hms[m][K][c] = 1
        /\ \A J \in CounterFields \ {K} : hms[m][J][c] = 0
        /\ Calls(m, "totalDuration", c) = 1 /\ hms[m].totalDuration[c] # Zero
        /\ \E x \in Child(hms[m].runDuration, c) : x.count = 1

LastWritten(m, c) ==
  LET log == IF <<m, c>> \in DOMAIN gaugeOps THEN gaugeOps[<<m, c>>] ELSE << >>
      upd == {i \in 1..Len(log) : log[i].call = "UpdateTotalDuration"}
  IN  {Seconds(log[i].d) : i \in {j \in upd : \A k \in upd : k <= j}}

\* C17: when UpdateTotalDuration calls for a command name have run
\* concurrently with other calls for that name, a Collector call included,
\* then once all of them have returned the gauge holds the seconds value of
\* the UpdateTotalDuration serialized last, never a value none of them wrote.
C17_GaugeLastWriteWins ==
  \A k \in raced :
    (k[2] = "totalDuration" /\ \A t \in Threads : inflight[t] = Idle) =>
      /\ LastWritten(k[1], k[3]) # {}
      /\ Child(hms[k[1]].totalDuration, k[3]) = LastWritten(k[1], k[3])

\* the series names a construction has registered in its target registry
RegisteredBy(m) ==
  {e.name : e \in {x \in registry[hms[m].reg] : x.owner = m}}

\* C18: NewPrometheusCollector registers the same set of series whether a
\* registry is supplied or the default one is used; only the target differs,
\* and a construction adds nothing to a registry other than its target (with
\* a supplied registry, nothing to the default one).
C18_RegistryChoice ==
  /\ \A i \in Sets, j \in Sets :
       (hms[i].returned /\ hms[j].returned) =>
         RegisteredBy(i) = RegisteredBy(j)
  /\ \A m \in Sets, r \in Registries :
       r # hms[m].reg => \A e \in registry[r] : e.owner # m

C18_Witness ==
  \E i \in Sets, j \in Sets :
    /\ hms[i].returned /\ hms[j].returned
    /\ hms[i].reg = DefaultRegisterer /\ hms[j].reg = CustomRegisterer
    /\ Cardinality(RegisteredBy(i)) = Len(RegisteredFieldsDefault)
    /\ RegisteredBy(j) = RegisteredBy(i)
====
